---- MODULE Spec2Model ----
(***************************************************************************)
(* Loom: flexbox-style auto layout for a Photoshop layer tree.             *)
(*                                                                         *)
(* The model covers the rule parser (parser.ts), the layout calculator     *)
(* (layout.ts), the appliers (apply.ts) and the document pass              *)
(* (autolayout.ts, processDocument and its phases).  The host document is  *)
(* a tree of layers: kids gives every group's children top to bottom,      *)
(* rect gives every art layer's rectangle in whole pixels.  With whole     *)
(* pixels a delta exceeds the 0.001 threshold of the code exactly when it  *)
(* is not zero.                                                            *)
(***************************************************************************)
EXTENDS Integers, Sequences, FiniteSets, TLC

VARIABLES
  kids,      \* container (document or group) -> its children, top to bottom
  rect,      \* art layer -> Bounds
  grouped,   \* layer -> clipped to the layer below (layer.grouped)
  name,      \* layer -> name, as prefix and dot-separated classes
  kind,      \* layer -> "group" | "normal" | "smart" | "adjust"
  visible,   \* layer -> layer.visible
  rejects,   \* host operations the host refuses, as <<operation, layer>>
  pc,        \* position of the run inside processDocument
  layoutGroups, \* processDocument: the sorted layout groups
  groupIdx,  \* processDocument: index k of the phase 3 loop
  clipped,   \* processDocument: allClippedLayers
  extracted, \* processDocument: allExtractedLayers
  log,       \* host calls issued so far in this pass, in order
  second,    \* TRUE once the pass has been started a second time
  start,     \* the document as it was when the current pass started
  result     \* calculator run alone: the LayoutResult

vars == <<kids, rect, grouped, name, kind, visible, rejects, pc, layoutGroups,
          groupIdx, clipped, extracted, log, second, start, result>>

Doc == 0
NoLayer == 0 - 1

-----------------------------------------------------------------------------
(* types.ts *)

Spacing(t, r, b, l) == [top |-> t, right |-> r, bottom |-> b, left |-> l]

createDefaultConfig ==
  [direction |-> "none", gap |-> 0, padding |-> Spacing(0, 0, 0, 0),
   items |-> "start", justify |-> "start", isContent |-> FALSE,
   resizeContent |-> FALSE, isRounded |-> FALSE, isFixed |-> FALSE,
   isRelative |-> FALSE, isBackdrop |-> FALSE]

Bounds(l, t, r, b) == [left |-> l, top |-> t, right |-> r, bottom |-> b]

-----------------------------------------------------------------------------
(* parser.ts.  A name is the text before its first dot (prefix) followed by *)
(* the dot-separated classes; a class is its word k and, for gap(...) and   *)
(* padding(...), the comma-separated arguments between the parentheses.     *)

Cls(k) == [k |-> k, args |-> <<>>]
ClsA(k, args) == [k |-> k, args |-> args]
Name(prefix, classes) == [prefix |-> prefix, classes |-> classes]

\* an argument as it is written: an optional minus sign, decimal digits (val,
\* when there are any) and whatever text follows the digits
Arg(neg, digits, val, rest) ==
  [neg |-> neg, digits |-> digits, val |-> val, rest |-> rest]

\* a plain decimal numeral
Num(n) == Arg(FALSE, TRUE, n, "")

\* parseInt(text, 10) || 0: the signed leading digits, text after them is
\* dropped; no digits gives NaN, which || turns into 0
parseInt(a) ==
  IF ~a.digits THEN 0 ELSE IF a.neg THEN 0 - a.val ELSE a.val

\* cls.match(/gap\((\d+)\)/): one argument made of digits only
parseGap(cls) ==
  IF /\ Len(cls.args) = 1
     /\ cls.args[1].digits /\ ~cls.args[1].neg /\ cls.args[1].rest = ""
  THEN parseInt(cls.args[1])
  ELSE 0

parsePadding(cls) ==
  LET v == cls.args IN
  CASE Len(v) = 1 -> Spacing(parseInt(v[1]), parseInt(v[1]),
                             parseInt(v[1]), parseInt(v[1]))
    [] Len(v) = 2 -> Spacing(parseInt(v[1]), parseInt(v[2]),
                             parseInt(v[1]), parseInt(v[2]))
    [] Len(v) = 4 -> Spacing(parseInt(v[1]), parseInt(v[2]),
                             parseInt(v[3]), parseInt(v[4]))
    [] OTHER -> Spacing(0, 0, 0, 0)

parseClass(config, cls) ==
  CASE cls.k = "hstack" -> [config EXCEPT !.direction = "horizontal"]
    [] cls.k = "vstack" -> [config EXCEPT !.direction = "vertical"]
    [] cls.k = "content" -> [config EXCEPT !.isContent = TRUE]
    [] cls.k = "resize" -> [config EXCEPT !.resizeContent = TRUE]
    [] cls.k = "rounded" -> [config EXCEPT !.isRounded = TRUE]
    [] cls.k = "fixed" -> [config EXCEPT !.isFixed = TRUE]
    [] cls.k = "relative" -> [config EXCEPT !.isRelative = TRUE]
    [] cls.k = "backdrop" -> [config EXCEPT !.isBackdrop = TRUE]
    [] cls.k = "items-start" -> [config EXCEPT !.items = "start"]
    [] cls.k = "items-center" -> [config EXCEPT !.items = "center"]
    [] cls.k = "items-end" -> [config EXCEPT !.items = "end"]
    [] cls.k = "justify-start" -> [config EXCEPT !.justify = "start"]
    [] cls.k = "justify-center" -> [config EXCEPT !.justify = "center"]
    [] cls.k = "justify-end" -> [config EXCEPT !.justify = "end"]
    [] cls.k = "justify-between" -> [config EXCEPT !.justify = "between"]
    [] cls.k = "gap" -> [config EXCEPT !.gap = parseGap(cls)]
    [] cls.k = "padding" -> [config EXCEPT !.padding = parsePadding(cls)]
    [] OTHER -> config

\* a loop over the classes in which an earlier class overrides a later one
RECURSIVE parseClassesEarlierWins(_, _, _)
parseClassesEarlierWins(config, classes, i) ==
  IF i > Len(classes) THEN config
  ELSE parseClass(parseClassesEarlierWins(config, classes, i + 1), classes[i])

RECURSIVE parseClasses(_, _, _)
parseClasses(config, classes, i) ==
  IF i > Len(classes) THEN config
  ELSE parseClasses(parseClass(config, classes[i]), classes, i + 1)

parseLayoutName(nm) ==
  IF nm.prefix # "" \/ nm.classes = <<>> THEN createDefaultConfig
  ELSE parseClasses(createDefaultConfig, nm.classes, 1)

\* the text of class k begins with word; the pairs of different texts are
\* listed, the texts being atoms here
startsWith(k, word) == k = word \/ <<k, word>> \in {<<"content-box", "content">>}

\* name.indexOf("." + word) !== -1: some class of the name begins with word
hasClass(nm, word) ==
  \E i \in 1..Len(nm.classes) : startsWith(nm.classes[i].k, word)

isLayoutGroup(nm) ==
  /\ nm.prefix = ""
  /\ nm.classes # <<>>
  /\ (hasClass(nm, "hstack") \/ hasClass(nm, "vstack") \/ hasClass(nm, "padding"))

isContentLayer(nm) == hasClass(nm, "content")

-----------------------------------------------------------------------------
(* measure.ts *)

getBoundsWidth(b) == b.right - b.left
getBoundsHeight(b) == b.bottom - b.top

Min(a, b) == IF a < b THEN a ELSE b
Max(a, b) == IF a > b THEN a ELSE b

\* a test that takes no layer for an adjustment layer
isAdjustmentLayerNone(l) == FALSE

isAdjustmentLayer(l) == kind[l] = "adjust"
isLayerVisible(l) == visible[l]
isLayerGroup(l) == kind[l] = "group"

\* the children of a container in visual order (top to bottom)
getChildren(S, g) == S.kids[g]

\* layer.bounds of the host: an art layer's rectangle; for a group the union
\* of its children's bounds, and the zero rectangle when it holds nothing
RECURSIVE getLayerBounds(_, _)
RECURSIVE unionOfChildren(_, _, _)
unionOfChildren(S, ch, i) ==
  LET b == getLayerBounds(S, ch[i]) IN
  IF i = Len(ch) THEN b
  ELSE LET u == unionOfChildren(S, ch, i + 1) IN
       Bounds(Min(b.left, u.left), Min(b.top, u.top),
              Max(b.right, u.right), Max(b.bottom, u.bottom))

getLayerBounds(S, l) ==
  IF kind[l] # "group" THEN S.rect[l]
  ELSE IF S.kids[l] = <<>> THEN Bounds(0, 0, 0, 0)
  ELSE unionOfChildren(S, S.kids[l], 1)

-----------------------------------------------------------------------------
(* layout.ts *)

Null == [null |-> TRUE]

\* a / b of the code, on values for which the quotient is a whole number
Div(a, b) == a \div b

RECURSIVE SeqSum(_, _)
SeqSum(s, i) == IF i > Len(s) THEN 0 ELSE s[i] + SeqSum(s, i + 1)

RECURSIVE SeqMax(_, _)
SeqMax(s, i) == IF i > Len(s) THEN 0 ELSE Max(s[i], SeqMax(s, i + 1))

RECURSIVE SeqMin(_, _)
SeqMin(s, i) == IF i = Len(s) THEN s[i] ELSE Min(s[i], SeqMin(s, i + 1))

widthsOf(bounds) == [i \in 1..Len(bounds) |-> getBoundsWidth(bounds[i])]
heightsOf(bounds) == [i \in 1..Len(bounds) |-> getBoundsHeight(bounds[i])]

\* a measurement that counts one gap per child instead of one per pair
calculateContentSizeGapPerChild(bounds, config) ==
  IF Len(bounds) = 0 THEN [width |-> 0, height |-> 0]
  ELSE CASE config.direction = "horizontal" ->
              [width |-> SeqSum(widthsOf(bounds), 1) + config.gap * Len(bounds),
               height |-> SeqMax(heightsOf(bounds), 1)]
         [] config.direction = "vertical" ->
              [width |-> SeqMax(widthsOf(bounds), 1),
               height |-> SeqSum(heightsOf(bounds), 1) + config.gap * Len(bounds)]
         [] OTHER ->
              [width |-> SeqMax(widthsOf(bounds), 1),
               height |-> SeqMax(heightsOf(bounds), 1)]

calculateContentSize(bounds, config) ==
  IF Len(bounds) = 0 THEN [width |-> 0, height |-> 0]
  ELSE CASE config.direction = "horizontal" ->
              [width |-> SeqSum(widthsOf(bounds), 1) + config.gap * (Len(bounds) - 1),
               height |-> SeqMax(heightsOf(bounds), 1)]
         [] config.direction = "vertical" ->
              [width |-> SeqMax(widthsOf(bounds), 1),
               height |-> SeqSum(heightsOf(bounds), 1) + config.gap * (Len(bounds) - 1)]
         [] OTHER ->
              [width |-> SeqMax(widthsOf(bounds), 1),
               height |-> SeqMax(heightsOf(bounds), 1)]

\* a cross-axis offset that takes "center" all the way to the far edge
calculateCrossAxisOffsetFarEdge(childSize, containerSize, alignment) ==
  CASE alignment = "center" -> containerSize - childSize
    [] alignment = "end" -> containerSize - childSize
    [] OTHER -> 0

calculateCrossAxisOffset(childSize, containerSize, alignment) ==
  CASE alignment = "center" -> Div(containerSize - childSize, 2)
    [] alignment = "end" -> containerSize - childSize
    [] OTHER -> 0

\* a start offset that leaves the gaps out of the total content size
mainAxisOffsetNoGaps(bounds, config, availableMain) ==
  LET sizes == IF config.direction = "horizontal" THEN widthsOf(bounds)
               ELSE heightsOf(bounds)
      totalContent == SeqSum(sizes, 1)
  IN CASE config.direction = "none" -> 0
       [] config.justify = "center" -> Div(availableMain - totalContent, 2)
       [] config.justify = "end" -> availableMain - totalContent
       [] OTHER -> 0

\* lines 247-293: the main-axis start offset and the gap used between children
mainAxisOffset(bounds, config, availableMain) ==
  LET sizes == IF config.direction = "horizontal" THEN widthsOf(bounds)
               ELSE heightsOf(bounds)
      totalContent == SeqSum(sizes, 1) + config.gap * (Len(bounds) - 1)
  IN CASE config.direction = "none" -> 0
       [] config.justify = "center" -> Div(availableMain - totalContent, 2)
       [] config.justify = "end" -> availableMain - totalContent
       [] OTHER -> 0

\* a between gap that shares the remaining space among all children
dynamicGapPerChild(bounds, config, availableMain) ==
  LET sizes == IF config.direction = "horizontal" THEN widthsOf(bounds)
               ELSE heightsOf(bounds)
      remaining == availableMain - SeqSum(sizes, 1)
  IN IF /\ config.direction # "none"
        /\ config.justify = "between"
        /\ Len(bounds) > 1
        /\ remaining > 0
     THEN Div(remaining, Len(bounds))
     ELSE config.gap

dynamicGap(bounds, config, availableMain) ==
  LET sizes == IF config.direction = "horizontal" THEN widthsOf(bounds)
               ELSE heightsOf(bounds)
      remaining == availableMain - SeqSum(sizes, 1)
  IN IF /\ config.direction # "none"
        /\ config.justify = "between"
        /\ Len(bounds) > 1
        /\ remaining > 0
     THEN Div(remaining, Len(bounds) - 1)
     ELSE config.gap

\* lines 295-356: the loop; cur is currentX (row) or currentY (column)
RECURSIVE positionLoop(_, _, _, _, _, _, _, _)
positionLoop(bounds, config, availableSpace, startX, startY, dyn, cur, i) ==
  IF i > Len(bounds) THEN <<>>
  ELSE
    LET childWidth == getBoundsWidth(bounds[i])
        childHeight == getBoundsHeight(bounds[i])
        pos ==
          CASE config.direction = "horizontal" ->
                 [x |-> cur,
                  y |-> startY + calculateCrossAxisOffset(
                          childHeight, availableSpace.height, config.items)]
            [] config.direction = "vertical" ->
                 [x |-> startX + calculateCrossAxisOffset(
                          childWidth, availableSpace.width, config.items),
                  y |-> cur]
            [] OTHER ->
                 [x |-> startX + calculateCrossAxisOffset(
                          childWidth, availableSpace.width, config.items),
                  y |-> startY + calculateCrossAxisOffset(
                          childHeight, availableSpace.height, config.items)]
        step == IF config.direction = "horizontal" THEN childWidth + dyn
                ELSE childHeight + dyn
    IN <<pos>> \o positionLoop(bounds, config, availableSpace, startX, startY,
                               dyn, cur + step, i + 1)

calculatePositions(bounds, config, availableSpace, startX, startY) ==
  IF Len(bounds) = 0 THEN <<>>
  ELSE
    LET availableMain == IF config.direction = "horizontal"
                         THEN availableSpace.width ELSE availableSpace.height
        offset == mainAxisOffset(bounds, config, availableMain)
        dyn == dynamicGap(bounds, config, availableMain)
        cur == IF config.direction = "horizontal" THEN startX + offset
               ELSE startY + offset
    IN positionLoop(bounds, config, availableSpace, startX, startY, dyn, cur, 1)

\* lines 40-49: the visible children, split by isContentLayer
contentLayersOf(S, layerSet) ==
  SelectSeq(getChildren(S, layerSet),
            LAMBDA c : isLayerVisible(c) /\ isContentLayer(name[c]))

normalLayersOf(S, layerSet) ==
  SelectSeq(getChildren(S, layerSet),
            LAMBDA c : isLayerVisible(c) /\ ~isContentLayer(name[c]))

calculateLayout(S, layerSet, config) ==
  LET contentLayers == contentLayersOf(S, layerSet)
      normalLayers == normalLayersOf(S, layerSet)
      normalBounds == [j \in 1..Len(normalLayers) |->
                         getLayerBounds(S, normalLayers[j])]
      contentSize == calculateContentSize(normalBounds, config)
      groupBounds == getLayerBounds(S, layerSet)
      hasContentLayer == Len(contentLayers) > 0
      contentShouldResize ==
        hasContentLayer /\ parseLayoutName(name[contentLayers[1]]).resizeContent
      useFixedSize == hasContentLayer /\ ~contentShouldResize
      contentLayerBounds == getLayerBounds(S, contentLayers[1])
      availableSpace ==
        IF useFixedSize
        THEN [width |-> getBoundsWidth(contentLayerBounds)
                          - config.padding.left - config.padding.right,
              height |-> getBoundsHeight(contentLayerBounds)
                          - config.padding.top - config.padding.bottom]
        ELSE contentSize
      containerSize ==
        IF useFixedSize
        THEN [width |-> getBoundsWidth(contentLayerBounds),
              height |-> getBoundsHeight(contentLayerBounds)]
        ELSE [width |-> contentSize.width
                          + config.padding.left + config.padding.right,
              height |-> contentSize.height
                          + config.padding.top + config.padding.bottom]
      contentStartX ==
        IF Len(normalBounds) > 0 /\ ~useFixedSize
        THEN SeqMin([j \in 1..Len(normalBounds) |-> normalBounds[j].left], 1)
        ELSE IF useFixedSize THEN contentLayerBounds.left + config.padding.left
        ELSE groupBounds.left
      contentStartY ==
        IF Len(normalBounds) > 0 /\ ~useFixedSize
        THEN SeqMin([j \in 1..Len(normalBounds) |-> normalBounds[j].top], 1)
        ELSE IF useFixedSize THEN contentLayerBounds.top + config.padding.top
        ELSE groupBounds.top
      positions == calculatePositions(normalBounds, config, availableSpace,
                                      contentStartX, contentStartY)
      normalChildren ==
        [k \in 1..Len(normalLayers) |->
           [layer |-> normalLayers[k], bounds |-> normalBounds[k],
            config |-> parseLayoutName(name[normalLayers[k]]),
            computedPosition |-> positions[k], computedSize |-> Null]]
      contentChildren ==
        [m \in 1..Len(contentLayers) |->
           [layer |-> contentLayers[m],
            bounds |-> getLayerBounds(S, contentLayers[m]),
            config |-> parseLayoutName(name[contentLayers[m]]),
            computedPosition |-> [x |-> contentStartX - config.padding.left,
                                  y |-> contentStartY - config.padding.top],
            computedSize |-> [width |-> containerSize.width,
                              height |-> containerSize.height]]]
  IN [children |-> normalChildren \o contentChildren,
      contentSize |-> contentSize,
      containerSize |-> containerSize]

-----------------------------------------------------------------------------
(* The host document.  S is the document while a phase runs: kids, rect and *)
(* grouped, the calls issued so far (log) and ok, FALSE once a host call    *)
(* has thrown and nothing has caught it.                                    *)

Ev(op, layer, site, arg) == [op |-> op, layer |-> layer, site |-> site, arg |-> arg]

Range(s) == {s[i] : i \in 1..Len(s)}

parentOf(S, l) == CHOOSE c \in DOMAIN S.kids : l \in Range(S.kids[c])

indexOf(s, x) == CHOOSE i \in 1..Len(s) : s[i] = x

without(s, x) == SelectSeq(s, LAMBDA y : y # x)

insertBefore(s, x, before) ==
  LET i == indexOf(s, before) IN
  SubSeq(s, 1, i - 1) \o <<x>> \o SubSeq(s, i, Len(s))

RECURSIVE leavesUnder(_, _)
leavesUnder(S, l) ==
  IF kind[l] # "group" THEN {l}
  ELSE UNION {leavesUnder(S, S.kids[l][i]) : i \in 1..Len(S.kids[l])}

\* a host call the host refuses throws
throws(op, l) == <<op, l>> \in rejects

issue(S, ev) == [S EXCEPT !.log = Append(@, ev)]

detached(S, l) == [c \in DOMAIN S.kids |-> without(S.kids[c], l)]

\* layer.move(target, placement); a layer that leaves its place in the stack
\* is no longer clipped (autolayout.ts:76)
hostMove(S, l, target, placement, site) ==
  LET S1 == issue(S, Ev("move", l, site, <<target>>))
      k == detached(S, l)
      k2 == CASE placement = "PLACEATBEGINNING" ->
                   [k EXCEPT ![target] = <<l>> \o @]
              [] placement = "INSIDE" ->
                   [k EXCEPT ![target] = <<l>> \o @]
              [] OTHER ->
                   [k EXCEPT ![parentOf(S, target)] = insertBefore(@, l, target)]
  IN IF throws("move", l) THEN [S1 EXCEPT !.ok = FALSE]
     ELSE [S1 EXCEPT !.kids = k2, !.grouped[l] = FALSE]

\* layer.translate(dx, dy): a group carries every layer below it; adjustment
\* layers cannot be moved (measure.ts:7)
hostTranslate(S, l, dx, dy, site) ==
  LET S1 == issue(S, Ev("translate", l, site, <<dx, dy>>))
      moving == {m \in leavesUnder(S, l) : kind[m] # "adjust"}
  IN IF throws("translate", l) THEN [S1 EXCEPT !.ok = FALSE]
     ELSE [S1 EXCEPT !.rect = [m \in DOMAIN @ |->
             IF m \in moving
             THEN Bounds(@[m].left + dx, @[m].top + dy,
                         @[m].right + dx, @[m].bottom + dy)
             ELSE @[m]]]

\* layer.resize(scaleX, scaleY, anchor) with the scale that takes the layer
\* to width w and height h: with TOPLEFT the top-left corner stays, with
\* MIDDLECENTER the centre stays
scaled(b, from, w, h, anchor) ==
  LET fw == getBoundsWidth(from)
      fh == getBoundsHeight(from)
      ox == IF anchor = "MIDDLECENTER" THEN Div(fw - w, 2) ELSE 0
      oy == IF anchor = "MIDDLECENTER" THEN Div(fh - h, 2) ELSE 0
  IN Bounds(from.left + ox + Div((b.left - from.left) * w, fw),
            from.top + oy + Div((b.top - from.top) * h, fh),
            from.left + ox + Div((b.right - from.left) * w, fw),
            from.top + oy + Div((b.bottom - from.top) * h, fh))

hostResize(S, l, w, h, anchor, site) ==
  LET S1 == issue(S, Ev("resize", l, site, <<w, h>>))
      from == getLayerBounds(S, l)
      scaling == {m \in leavesUnder(S, l) : kind[m] # "adjust"}
  IN IF throws("resize", l) THEN [S1 EXCEPT !.ok = FALSE]
     ELSE [S1 EXCEPT !.rect = [m \in DOMAIN @ |->
             IF m \in scaling THEN scaled(@[m], from, w, h, anchor) ELSE @[m]]]

\* layer.grouped = true
hostClip(S, l, site) ==
  LET S1 == issue(S, Ev("clip", l, site, <<>>))
  IN IF throws("clip", l) THEN [S1 EXCEPT !.ok = FALSE]
     ELSE [S1 EXCEPT !.grouped[l] = TRUE]

\* a try block around a call: the failure is dropped
caught(S) == [S EXCEPT !.ok = TRUE]

-----------------------------------------------------------------------------
(* apply.ts *)

RECURSIVE applyPositions(_, _, _)
applyPositions(S, children, i) ==
  IF i > Len(children) \/ ~S.ok THEN S
  ELSE
    LET child == children[i]
        deltaX == child.computedPosition.x - child.bounds.left
        deltaY == child.computedPosition.y - child.bounds.top
    IN IF child.computedPosition = Null \/ isAdjustmentLayer(child.layer)
       THEN applyPositions(S, children, i + 1)
       ELSE IF deltaX # 0 \/ deltaY # 0
       THEN applyPositions(
              hostTranslate(S, child.layer, deltaX, deltaY, "applyPositions"),
              children, i + 1)
       ELSE applyPositions(S, children, i + 1)

\* layer.resize in a try block, resizeWithTransform in a second one: a layer
\* that cannot be resized is left as it is
resizeLayerTo(S, layer, targetSize, site) ==
  LET bounds == getLayerBounds(S, layer) IN
  IF getBoundsWidth(bounds) <= 0 \/ getBoundsHeight(bounds) <= 0 THEN S
  ELSE caught(hostResize(S, layer, targetSize.width, targetSize.height,
                         "TOPLEFT", site))

RECURSIVE applyContentSizes(_, _, _)
applyContentSizes(S, children, i) ==
  IF i > Len(children) THEN S
  ELSE
    LET child == children[i] IN
    IF child.computedSize = Null \/ ~child.config.isContent
       \/ isAdjustmentLayer(child.layer)
    THEN applyContentSizes(S, children, i + 1)
    ELSE applyContentSizes(
           resizeLayerTo(S, child.layer, child.computedSize, "applyContentSizes"),
           children, i + 1)

\* rounded.ts applyMaxRoundness: the whole body is in a try block
applyMaxRoundness(S, layer) ==
  caught(IF throws("round", layer)
         THEN [issue(S, Ev("round", layer, "applyRoundness", <<>>)) EXCEPT !.ok = FALSE]
         ELSE issue(S, Ev("round", layer, "applyRoundness", <<>>)))

RECURSIVE applyRoundnessRecursive(_, _)
RECURSIVE roundChildren(_, _, _)
roundChildren(S, children, i) ==
  IF i > Len(children) THEN S
  ELSE
    LET child == children[i]
        S1 == IF parseLayoutName(name[child]).isRounded
              THEN applyMaxRoundness(S, child) ELSE S
    IN IF isAdjustmentLayer(child) THEN roundChildren(S, children, i + 1)
       ELSE roundChildren(applyRoundnessRecursive(S1, child), children, i + 1)

applyRoundnessRecursive(S, layer) ==
  IF ~isLayerGroup(layer) THEN S
  ELSE roundChildren(S, getChildren(S, layer), 1)

RECURSIVE applyRoundness(_, _, _)
applyRoundness(S, children, i) ==
  IF i > Len(children) THEN S
  ELSE
    LET child == children[i]
        S1 == IF child.config.isRounded
              THEN applyMaxRoundness(S, child.layer) ELSE S
    IN IF isAdjustmentLayer(child.layer) THEN applyRoundness(S, children, i + 1)
       ELSE applyRoundness(applyRoundnessRecursive(S1, child.layer),
                           children, i + 1)

\* moveLayerTo
moveLayerTo(S, layer, x, y, site) ==
  LET bounds == getLayerBounds(S, layer)
      deltaX == x - bounds.left
      deltaY == y - bounds.top
  IN IF isAdjustmentLayer(layer) THEN S
     ELSE IF deltaX # 0 \/ deltaY # 0
     THEN hostTranslate(S, layer, deltaX, deltaY, site)
     ELSE S

\* resizeBackdropToSize, the part that acts on the document being laid out:
\* transformLayerFromCenter scales the layer about its centre to the target
\* size, moveLayerTo then takes it to (0, 0); the whole body is in a try block
resizeBackdropToSize(S, backdropLayer, targetWidth, targetHeight) ==
  LET cur == getLayerBounds(S, backdropLayer)
      S1 == hostResize(S, backdropLayer, targetWidth, targetHeight,
                       "MIDDLECENTER", "resizeBackdropToSize")
      S2 == IF S1.ok
            THEN moveLayerTo(S1, backdropLayer, 0, 0, "resizeBackdropToSize")
            ELSE S1
  IN IF kind[backdropLayer] # "smart" THEN S
     ELSE IF getBoundsWidth(cur) > 0 /\ getBoundsHeight(cur) > 0
     THEN caught(S2)
     ELSE S

\* getAllLayersInOrder: every layer of the document, depth-first, top to bottom
RECURSIVE collectLayers(_, _, _)
collectLayers(S, children, i) ==
  IF i > Len(children) THEN <<>>
  ELSE <<children[i]>>
       \o (IF isLayerGroup(children[i])
           THEN collectLayers(S, getChildren(S, children[i]), 1) ELSE <<>>)
       \o collectLayers(S, children, i + 1)

getAllLayersInOrder(S) == collectLayers(S, getChildren(S, Doc), 1)

\* a selection that takes every visible layer after the backdrop, other
\* backdrops included
layersToMergeAllVisible(S, backdropLayer) ==
  LET allLayers == getAllLayersInOrder(S)
      backdropIndex == indexOf(allLayers, backdropLayer)
  IN SelectSeq(SubSeq(allLayers, backdropIndex + 1, Len(allLayers)),
               LAMBDA l : isLayerVisible(l))

\* processBackdropLayer, lines 356-370: the layers after the backdrop in
\* document order that are visible and are not backdrops
layersToMerge(S, backdropLayer) ==
  LET allLayers == getAllLayersInOrder(S)
      backdropIndex == indexOf(allLayers, backdropLayer)
  IN SelectSeq(SubSeq(allLayers, backdropIndex + 1, Len(allLayers)),
               LAMBDA l : isLayerVisible(l) /\ ~parseLayoutName(name[l]).isBackdrop)

\* the layers a stamp can make: they are in no container until stamped
Stamps == {6, 7}

inDocument(S) == UNION {Range(S.kids[c]) : c \in DOMAIN S.kids}

\* stampLayers: the selected layers are merged into a new layer, which is put
\* above the topmost of them and covers what they cover
stampLayers(S, selected) ==
  LET mergedLayer == CHOOSE s \in Stamps \ inDocument(S) :
                       \A u \in Stamps \ inDocument(S) : s <= u
      S1 == issue(S, Ev("stamp", mergedLayer, "processBackdropLayer", <<>>))
  IN [S1 EXCEPT
        !.kids[parentOf(S, selected[1])] = insertBefore(@, mergedLayer, selected[1]),
        !.rect[mergedLayer] = unionOfChildren(S, selected, 1)]

\* mergedLayer.remove()
removeLayer(S, l) ==
  [issue(S, Ev("remove", l, "processBackdropLayer", <<>>))
     EXCEPT !.kids = detached(S, l)]

\* processBackdropLayer: the stamp of the layers below replaces the contents of
\* the smart object.  When the smart object cannot be opened the inner catch
\* removes the stamp (lines 407-419); when paste, clear or save throws, the
\* outer catch closes the smart object and returns to the document, and
\* removes nothing (lines 434-449)
processBackdropLayer(S, backdropLayer) ==
  IF kind[backdropLayer] # "smart" THEN S
  ELSE IF backdropLayer \notin Range(getAllLayersInOrder(S)) THEN S
  ELSE IF Len(layersToMerge(S, backdropLayer)) = 0 THEN S
  ELSE
    LET selected == layersToMerge(S, backdropLayer)
        S1 == issue(S, Ev("merge", backdropLayer, "processBackdropLayer",
                          selected))
        S2 == stampLayers(S1, selected)
        mergedLayer == S2.log[Len(S2.log)].layer
    IN IF throws("edit", backdropLayer) THEN removeLayer(S2, mergedLayer)
       ELSE IF throws("paste", backdropLayer) THEN S2
       ELSE removeLayer(S2, mergedLayer)

RECURSIVE processBackdropsInGroup(_, _, _)
processBackdropsInGroup(S, children, i) ==
  IF i > Len(children) THEN S
  ELSE
    LET child == children[i] IN
    IF parseLayoutName(name[child]).isBackdrop /\ isLayerVisible(child)
    THEN processBackdropsInGroup(processBackdropLayer(S, child), children, i + 1)
    ELSE processBackdropsInGroup(S, children, i + 1)

-----------------------------------------------------------------------------
(* autolayout.ts *)

\* getAllLayerSets: every group of the document, depth-first
RECURSIVE collectLayerSets(_, _, _)
collectLayerSets(S, children, i) ==
  IF i > Len(children) THEN <<>>
  ELSE (IF isLayerGroup(children[i])
        THEN <<children[i]>> \o collectLayerSets(S, getChildren(S, children[i]), 1)
        ELSE <<>>)
       \o collectLayerSets(S, children, i + 1)

getAllLayerSets(S) == collectLayerSets(S, getChildren(S, Doc), 1)

RECURSIVE getDepth(_, _)
getDepth(S, layer) ==
  IF parentOf(S, layer) = Doc THEN 0 ELSE 1 + getDepth(S, parentOf(S, layer))

\* the groups left in the order the scan found them, parents first
sortAsScanned(S, groups) == groups

\* layoutGroups.sort(getDepth(b) - getDepth(a)): deepest first
RECURSIVE sortByDepth(_, _)
sortByDepth(S, groups) ==
  IF Len(groups) = 0 THEN <<>>
  ELSE
    LET deepest == SeqMax([i \in 1..Len(groups) |-> getDepth(S, groups[i])], 1)
        first == CHOOSE i \in 1..Len(groups) :
                   /\ getDepth(S, groups[i]) = deepest
                   /\ \A j \in 1..(i - 1) : getDepth(S, groups[j]) # deepest
    IN <<groups[first]>>
       \o sortByDepth(S, SubSeq(groups, 1, first - 1)
                         \o SubSeq(groups, first + 1, Len(groups)))

\* lines 53-73
scanLayoutGroups(S) ==
  sortByDepth(S, SelectSeq(getAllLayerSets(S), LAMBDA g : isLayoutGroup(name[g])))

\* saveClippedLayers
RECURSIVE saveClippedLoop(_, _, _)
saveClippedLoop(S, children, i) ==
  IF i > Len(children) THEN <<>>
  ELSE
    LET child == children[i]
        childConfig == parseLayoutName(name[child])
        inner == IF isLayerGroup(child)
                    /\ (childConfig.isRelative \/ childConfig.isFixed)
                 THEN SelectSeq(getChildren(S, child), LAMBDA c : S.grouped[c])
                 ELSE <<>>
    IN (IF S.grouped[child] THEN <<child>> ELSE <<>>) \o inner
       \o saveClippedLoop(S, children, i + 1)

saveClippedLayers(S, layerSet) ==
  [layerSet |-> layerSet,
   clippedLayers |-> saveClippedLoop(S, getChildren(S, layerSet), 1)]

\* a restoring that takes the layers in the order they were recorded
RECURSIVE restoreClippedLayersTopFirst(_, _, _)
restoreClippedLayersTopFirst(S, clippedLayers, i) ==
  IF i < 1 THEN S
  ELSE restoreClippedLayersTopFirst(
         caught(hostClip(S, clippedLayers[Len(clippedLayers) - i + 1],
                         "restoreClippedLayers")),
         clippedLayers, i - 1)

\* restoreClippedLayers: last recorded first, each assignment in a try block
RECURSIVE restoreClippedLayers(_, _, _)
restoreClippedLayers(S, clippedLayers, i) ==
  IF i < 1 THEN S
  ELSE restoreClippedLayers(
         caught(hostClip(S, clippedLayers[i], "restoreClippedLayers")),
         clippedLayers, i - 1)

\* the first entry of children after position i that is in keep, or none
nextSibling(children, i, keep) ==
  LET later == {j \in (i + 1)..Len(children) : children[j] \in keep} IN
  IF later = {} THEN NoLayer
  ELSE children[CHOOSE j \in later : \A k \in later : j <= k]

\* layer.move(doc, PLACEATBEGINNING) for every record, in order
RECURSIVE moveAllToRoot(_, _, _, _)
moveAllToRoot(S, records, i, site) ==
  IF i > Len(records) \/ ~S.ok THEN S
  ELSE moveAllToRoot(
         hostMove(S, records[i].layer, Doc, "PLACEATBEGINNING", site),
         records, i + 1, site)

\* extractAdjustmentLayersFromGroup, lines 247-275: the records
RECURSIVE adjustmentRecords(_, _, _, _, _)
adjustmentRecords(S, group, children, i, currentOrder) ==
  IF i > Len(children) THEN <<>>
  ELSE IF isAdjustmentLayer(children[i])
  THEN <<[layer |-> children[i],
          originalParent |-> group,
          siblingAfter |-> nextSibling(children, i,
                            {c \in Range(children) : ~isAdjustmentLayer(c)}),
          absoluteX |-> getLayerBounds(S, children[i]).left,
          absoluteY |-> getLayerBounds(S, children[i]).top,
          isRelative |-> FALSE, isBackdrop |-> FALSE, isAdjustment |-> TRUE,
          extractionOrder |-> currentOrder]>>
       \o adjustmentRecords(S, group, children, i + 1, currentOrder + 1)
  ELSE adjustmentRecords(S, group, children, i + 1, currentOrder)

extractAdjustmentLayersFromGroup(S, group, startOrder) ==
  LET records == adjustmentRecords(S, group, getChildren(S, group), 1, startOrder)
  IN [S |-> moveAllToRoot(S, records, 1, "extractAdjustmentLayersFromGroup"),
      records |-> records]

\* a sibling that no extraction takes (lines 338-343)
staysInPlace(c) ==
  LET cfg == parseLayoutName(name[c]) IN
  ~isAdjustmentLayer(c) /\ ~cfg.isFixed /\ ~cfg.isRelative /\ ~cfg.isBackdrop

\* extractSpecialLayers, lines 299-363: one turn of the loop per child
RECURSIVE extractLoop(_, _, _, _, _, _)
extractLoop(S, layerSet, children, i, records, currentOrder) ==
  IF i > Len(children) \/ ~S.ok THEN [S |-> S, records |-> records]
  ELSE
    LET child == children[i]
        childConfig == parseLayoutName(name[child])
        isAdjustment == isAdjustmentLayer(child)
        inner == IF (childConfig.isRelative \/ childConfig.isFixed)
                    /\ isLayerGroup(child) /\ isLayerVisible(child)
                 THEN extractAdjustmentLayersFromGroup(S, child, currentOrder)
                 ELSE [S |-> S, records |-> <<>>]
        S1 == inner.S
        order1 == currentOrder + Len(inner.records)
        shouldExtract ==
          isAdjustment
          \/ ((childConfig.isFixed \/ childConfig.isRelative
               \/ childConfig.isBackdrop) /\ isLayerVisible(child))
        bounds == getLayerBounds(S1, child)
        record == [layer |-> child,
                   originalParent |-> layerSet,
                   siblingAfter |-> nextSibling(children, i,
                                   {c \in Range(children) : staysInPlace(c)}),
                   absoluteX |-> bounds.left,
                   absoluteY |-> bounds.top,
                   isRelative |-> childConfig.isRelative,
                   isBackdrop |-> childConfig.isBackdrop,
                   isAdjustment |-> isAdjustment,
                   extractionOrder |-> order1]
    IN IF ~S1.ok THEN [S |-> S1, records |-> records \o inner.records]
       ELSE IF shouldExtract
       THEN extractLoop(S1, layerSet, children, i + 1,
                        (records \o inner.records) \o <<record>>, order1 + 1)
       ELSE extractLoop(S1, layerSet, children, i + 1,
                        records \o inner.records, order1)

extractSpecialLayers(S, layerSet, startOrder) ==
  LET found == extractLoop(S, layerSet, getChildren(S, layerSet), 1, <<>>,
                           startOrder)
  IN [S |-> moveAllToRoot(found.S, found.records, 1, "extractSpecialLayers"),
      records |-> found.records]

\* a collection that starts the numbers of every group at 0
RECURSIVE extractAllRestarting(_, _, _, _)
extractAllRestarting(S, groups, i, all) ==
  IF i > Len(groups) \/ ~S.ok THEN [S |-> S, records |-> all]
  ELSE
    LET got == extractSpecialLayers(S, groups[i], 0)
    IN extractAllRestarting(got.S, groups, i + 1, all \o got.records)

\* processDocument, lines 82-95
RECURSIVE extractAll(_, _, _, _)
extractAll(S, groups, i, all) ==
  IF i > Len(groups) \/ ~S.ok THEN [S |-> S, records |-> all]
  ELSE
    LET got == extractSpecialLayers(S, groups[i], Len(all))
    IN extractAll(got.S, groups, i + 1, all \o got.records)

\* restoreLayersToGroup, lines 385-402: back into the original parent
reinsert(S, info) ==
  LET parentChildren == getChildren(S, info.originalParent)
      lastChild == parentChildren[Len(parentChildren)]
      S1 == hostMove(S, info.layer, lastChild, "PLACEBEFORE",
                     "restoreLayersToGroup")
  IN IF info.siblingAfter # NoLayer
     THEN hostMove(S, info.layer, info.siblingAfter, "PLACEBEFORE",
                   "restoreLayersToGroup")
     ELSE IF Len(parentChildren) > 0
     THEN IF S1.ok
          THEN hostMove(S1, lastChild, info.layer, "PLACEBEFORE",
                        "restoreLayersToGroup.lastChild")
          ELSE S1
     ELSE hostMove(S, info.layer, info.originalParent, "INSIDE",
                   "restoreLayersToGroup")

\* restoreLayersToGroup, lines 404-414: fixed layers go back to the recorded
\* top-left
correctFixed(S, info) ==
  LET currentBounds == getLayerBounds(S, info.layer)
      deltaX == info.absoluteX - currentBounds.left
      deltaY == info.absoluteY - currentBounds.top
  IN IF ~info.isRelative /\ ~info.isBackdrop /\ ~info.isAdjustment
        /\ (deltaX # 0 \/ deltaY # 0)
     THEN hostTranslate(S, info.layer, deltaX, deltaY, "restoreLayersToGroup")
     ELSE S

RECURSIVE restoreLayersToGroup(_, _, _)
restoreLayersToGroup(S, layers, i) ==
  IF i > Len(layers) \/ ~S.ok THEN S
  ELSE
    LET S1 == reinsert(S, layers[i])
        S2 == IF S1.ok THEN correctFixed(S1, layers[i]) ELSE S1
    IN restoreLayersToGroup(S2, layers, i + 1)

\* lines 97-112
allRelativeLayers(all) == SelectSeq(all, LAMBDA e : e.isRelative)
allNonRelativeLayers(all) == SelectSeq(all, LAMBDA e : ~e.isRelative)
allBackdropLayers(all) == SelectSeq(all, LAMBDA e : ~e.isRelative /\ e.isBackdrop)

\* allNonRelativeLayers.sort(a.extractionOrder - b.extractionOrder)
RECURSIVE sortByOrder(_)
sortByOrder(records) ==
  IF Len(records) = 0 THEN <<>>
  ELSE
    LET first == CHOOSE i \in 1..Len(records) :
                   \A j \in 1..Len(records) :
                     records[i].extractionOrder < records[j].extractionOrder
                     \/ (records[i].extractionOrder = records[j].extractionOrder
                         /\ i <= j)
    IN <<records[first]>>
       \o sortByOrder(SubSeq(records, 1, first - 1)
                      \o SubSeq(records, first + 1, Len(records)))

\* processLayoutGroup; the calculator run is noted in the log
processLayoutGroup(S, layerSet) ==
  LET config == parseLayoutName(name[layerSet])
      layout == calculateLayout(S, layerSet, config)
      S0 == issue(S, Ev("calc", layerSet, "processLayoutGroup", <<>>))
      S1 == applyContentSizes(S0, layout.children, 1)
      S2 == applyRoundness(S1, layout.children, 1)
  IN IF config.direction = "none" /\ config.padding = Spacing(0, 0, 0, 0)
     THEN S
     ELSE IF Len(layout.children) = 0 THEN S0
     ELSE applyPositions(S2, layout.children, 1)

\* resizeBackdropsToDocument
RECURSIVE resizeBackdropsToDocument(_, _, _, _, _)
resizeBackdropsToDocument(S, backdrops, i, docWidth, docHeight) ==
  IF i > Len(backdrops) THEN S
  ELSE resizeBackdropsToDocument(
         resizeBackdropToSize(S, backdrops[i].layer, docWidth, docHeight),
         backdrops, i + 1, docWidth, docHeight)

-----------------------------------------------------------------------------
(* The documents.  Layer 1 is a layout group at the top of the document; it *)
(* holds group 2 and layer 5; group 2 holds layers 3 and 4.                 *)

MaxShift == 1
DocWidth == 200
DocHeight == 100

Layers == 1..5
Leaves == {3, 4, 5}

Role(nm, k, v) == [name |-> nm, kind |-> k, visible |-> v]

Flow == Role(Name("Title", <<>>), "normal", TRUE)
Hidden == Role(Name("Title", <<>>), "normal", FALSE)
Content == Role(Name("", <<Cls("content")>>), "normal", TRUE)
ContentResize == Role(Name("", <<Cls("content"), Cls("resize")>>), "normal", TRUE)
Fixed == Role(Name("", <<Cls("fixed")>>), "normal", TRUE)
Relative == Role(Name("", <<Cls("relative")>>), "normal", TRUE)
Backdrop == Role(Name("", <<Cls("backdrop")>>), "smart", TRUE)
FixedRelative == Role(Name("", <<Cls("fixed"), Cls("relative")>>), "normal", TRUE)
Adjustment == Role(Name("Levels 1", <<>>), "adjust", TRUE)
Watermark == Role(Name("Watermark", <<Cls("fixed")>>), "normal", TRUE)
BackdropRelative ==
  Role(Name("", <<Cls("backdrop"), Cls("relative")>>), "smart", TRUE)
BackdropArt == Role(Name("", <<Cls("backdrop")>>), "normal", TRUE)
HiddenFixed == Role(Name("", <<Cls("fixed")>>), "normal", FALSE)

OuterGroup ==
  {Role(Name("", <<Cls("vstack"), ClsA("gap", <<Num(5)>>)>>), "group", TRUE),
   Role(Name("", <<Cls("hstack"), Cls("items-end")>>), "group", TRUE)}

InnerGroup ==
  {Role(Name("", <<Cls("hstack")>>), "group", TRUE),
   Role(Name("", <<Cls("vstack"), ClsA("padding", <<Num(8)>>)>>), "group", TRUE),
   Role(Name("", <<Cls("fixed"), Cls("vstack")>>), "group", TRUE),
   Role(Name("", <<Cls("relative")>>), "group", TRUE),
   Role(Name("Icons", <<>>), "group", TRUE)}

UpperLeaf ==
  {Flow, Content, ContentResize, Fixed, Relative, Backdrop, FixedRelative,
   Adjustment, Watermark, BackdropRelative, BackdropArt}

LowerLeaf ==
  {Flow, Hidden, ContentResize, Relative, Fixed, Adjustment, HiddenFixed}

BottomLeaf == {Flow, Backdrop}

\* the rectangle of an art layer: its size, and its place moved by s steps
Size == (3 :> [w |-> 20, h |-> 10]) @@ (4 :> [w |-> 10, h |-> 20])
        @@ (5 :> [w |-> 30, h |-> 10])
Place == (3 :> [x |-> 30, y |-> 20]) @@ (4 :> [x |-> 40, y |-> 30])
         @@ (5 :> [x |-> 10, y |-> 70])
Step == (3 :> [x |-> 20, y |-> 20]) @@ (4 :> [x |-> 0 - 20, y |-> 10])
        @@ (5 :> [x |-> 0, y |-> 0])

Canvas == Bounds(0, 0, DocWidth, DocHeight)

rectOf(l, role, s) ==
  IF role.kind = "adjust" THEN Canvas
  ELSE Bounds(Place[l].x + s * Step[l].x, Place[l].y + s * Step[l].y,
              Place[l].x + s * Step[l].x + Size[l].w,
              Place[l].y + s * Step[l].y + Size[l].h)

\* what the host may refuse
Refusals ==
  {{}} \cup {{<<"translate", l>>} : l \in {2, 3, 4}}
       \cup {{<<"move", 3>>}, {<<"resize", 3>>}}
       \cup {{<<"edit", 3>>}, {<<"paste", 3>>}, {<<"clip", 4>>}}

\* a layer made by a stamp is an art layer with a name of the host's
Merged == Role(Name("Layer 1", <<>>), "normal", TRUE)

\* the layers that are clipped to the layer below them when the run starts
Clipped == {{}, {3}, {3, 4}}

current == [kids |-> kids, rect |-> rect, grouped |-> grouped, log |-> log,
            ok |-> TRUE]

Init ==
  \E outer \in OuterGroup, inner \in InnerGroup, upper \in UpperLeaf,
     lower \in LowerLeaf, s3 \in 0..MaxShift, s4 \in 0..MaxShift,
     refused \in Refusals, clip \in Clipped, bottom \in BottomLeaf :
    LET roles == (1 :> outer) @@ (2 :> inner) @@ (3 :> upper) @@ (4 :> lower)
                 @@ (5 :> bottom) @@ [s \in Stamps |-> Merged]
    IN /\ refused # {} => (s3 = 0 /\ s4 = 0)
       /\ clip # {} => (s3 = 0 /\ s4 = 0 /\ refused \subseteq {<<"clip", 4>>})
       /\ <<"clip", 4>> \in refused => clip = {3, 4}
       /\ bottom # Flow => (s3 = 0 /\ s4 = 0 /\ refused = {} /\ clip = {})
       /\ kids = (Doc :> <<1>>) @@ (1 :> <<2, 5>>) @@ (2 :> <<3, 4>>)
                 @@ (3 :> <<>>) @@ (4 :> <<>>) @@ (5 :> <<>>)
                 @@ [s \in Stamps |-> <<>>]
       /\ rect = (3 :> rectOf(3, upper, s3)) @@ (4 :> rectOf(4, lower, s4))
                 @@ (5 :> rectOf(5, bottom, 0))
                 @@ [s \in Stamps |-> Bounds(0, 0, 0, 0)]
       /\ grouped = [l \in Layers \cup Stamps |-> l \in clip]
       /\ name = [l \in Layers \cup Stamps |-> roles[l].name]
       /\ kind = [l \in Layers \cup Stamps |-> roles[l].kind]
       /\ visible = [l \in Layers \cup Stamps |-> roles[l].visible]
       /\ rejects = refused
       /\ pc = "scan"
       /\ layoutGroups = <<>>
       /\ groupIdx = 1
       /\ clipped = <<>>
       /\ extracted = <<>>
       /\ log = <<>>
       /\ second = FALSE
       /\ start = [kids |-> kids, rect |-> rect]
       /\ result = Null

-----------------------------------------------------------------------------
(* processDocument, one action per phase *)

static == <<name, kind, visible, rejects>>

\* an order of phases in which the groups are laid out before the relative
\* layers are put back
phaseAfterLayoutFirst(p) ==
  CASE p = "scan" -> "saveClipped"
    [] p = "saveClipped" -> "extract"
    [] p = "extract" -> "layout"
    [] p = "layout" -> "restoreRelative"
    [] p = "restoreRelative" -> "restoreFixed"
    [] p = "restoreFixed" -> "restoreClipping"
    [] p = "restoreClipping" -> "resizeBackdrops"
    [] p = "resizeBackdrops" -> "mergeBackdrops"
    [] OTHER -> "done"

\* the phase that follows p in processDocument (lines 75-144)
phaseAfter(p) ==
  CASE p = "scan" -> "saveClipped"
    [] p = "saveClipped" -> "extract"
    [] p = "extract" -> "restoreRelative"
    [] p = "restoreRelative" -> "layout"
    [] p = "layout" -> "restoreFixed"
    [] p = "restoreFixed" -> "restoreClipping"
    [] p = "restoreClipping" -> "resizeBackdrops"
    [] p = "resizeBackdrops" -> "mergeBackdrops"
    [] OTHER -> "done"

\* the document after a phase; a call that threw ends the run
commit(S, next) ==
  /\ kids' = S.kids
  /\ rect' = S.rect
  /\ grouped' = S.grouped
  /\ log' = S.log
  /\ pc' = IF S.ok THEN next ELSE "aborted"

Scan ==
  /\ pc = "scan"
  /\ layoutGroups' = scanLayoutGroups(current)
  /\ pc' = IF Len(layoutGroups') = 0 THEN "done" ELSE phaseAfter("scan")
  /\ UNCHANGED <<kids, rect, grouped, static, groupIdx, clipped, extracted,
                 log, second, start, result>>

SaveClipped ==
  /\ pc = "saveClipped"
  /\ clipped' = [i \in 1..Len(layoutGroups) |->
                   saveClippedLayers(current, layoutGroups[i])]
  /\ pc' = phaseAfter("saveClipped")
  /\ UNCHANGED <<kids, rect, grouped, static, layoutGroups, groupIdx,
                 extracted, log, second, start, result>>

Extract ==
  /\ pc = "extract"
  /\ LET got == extractAll(current, layoutGroups, 1, <<>>)
     IN /\ extracted' = got.records
        /\ commit(got.S, phaseAfter("extract"))
  /\ UNCHANGED <<static, layoutGroups, groupIdx, clipped, second, start, result>>

RestoreRelative ==
  /\ pc = "restoreRelative"
  /\ commit(restoreLayersToGroup(current, allRelativeLayers(extracted), 1),
            phaseAfter("restoreRelative"))
  /\ UNCHANGED <<static, layoutGroups, groupIdx, clipped, extracted, second,
                 start, result>>

Layout ==
  /\ pc = "layout"
  /\ groupIdx <= Len(layoutGroups)
  /\ commit(processLayoutGroup(current, layoutGroups[groupIdx]),
            IF groupIdx = Len(layoutGroups) THEN phaseAfter("layout")
            ELSE "layout")
  /\ groupIdx' = groupIdx + 1
  /\ UNCHANGED <<static, layoutGroups, clipped, extracted, second, start, result>>

RestoreFixed ==
  /\ pc = "restoreFixed"
  /\ commit(restoreLayersToGroup(
              current, sortByOrder(allNonRelativeLayers(extracted)), 1),
            phaseAfter("restoreFixed"))
  /\ UNCHANGED <<static, layoutGroups, groupIdx, clipped, extracted, second,
                 start, result>>

RECURSIVE restoreAllClipped(_, _, _)
restoreAllClipped(S, infos, n) ==
  IF n > Len(infos) THEN S
  ELSE restoreAllClipped(
         restoreClippedLayers(S, infos[n].clippedLayers,
                              Len(infos[n].clippedLayers)),
         infos, n + 1)

RestoreClipping ==
  /\ pc = "restoreClipping"
  /\ commit(restoreAllClipped(current, clipped, 1),
            phaseAfter("restoreClipping"))
  /\ UNCHANGED <<static, layoutGroups, groupIdx, clipped, extracted, second,
                 start, result>>

ResizeBackdrops ==
  /\ pc = "resizeBackdrops"
  /\ commit(resizeBackdropsToDocument(current, allBackdropLayers(extracted), 1,
                                      DocWidth, DocHeight),
            phaseAfter("resizeBackdrops"))
  /\ UNCHANGED <<static, layoutGroups, groupIdx, clipped, extracted, second,
                 start, result>>

RECURSIVE mergeAll(_, _, _)
mergeAll(S, groups, m) ==
  IF m > Len(groups) THEN S
  ELSE mergeAll(processBackdropsInGroup(S, getChildren(S, groups[m]), 1),
                groups, m + 1)

MergeBackdrops ==
  /\ pc = "mergeBackdrops"
  /\ commit(mergeAll(current, layoutGroups, 1), phaseAfter("mergeBackdrops"))
  /\ UNCHANGED <<static, layoutGroups, groupIdx, clipped, extracted, second,
                 start, result>>

\* the script is run again on the document the first run left
RunAgain ==
  /\ pc = "done"
  /\ ~second
  /\ second' = TRUE
  /\ start' = [kids |-> kids, rect |-> rect]
  /\ pc' = "scan"
  /\ layoutGroups' = <<>>
  /\ groupIdx' = 1
  /\ clipped' = <<>>
  /\ extracted' = <<>>
  /\ log' = <<>>
  /\ UNCHANGED <<kids, rect, grouped, static, result>>

Next ==
  \/ Scan
  \/ SaveClipped
  \/ Extract
  \/ RestoreRelative
  \/ Layout
  \/ RestoreFixed
  \/ RestoreClipping
  \/ ResizeBackdrops
  \/ MergeBackdrops
  \/ RunAgain

Spec == Init /\ [][Next]_vars

-----------------------------------------------------------------------------
(* The calculator alone: calculateLayout on one layout group (layer 1) that *)
(* holds up to MaxKids flow layers of every size in Widths x Heights.       *)

MaxKids == 3

Widths == {10, 20, 30}
Heights == {10, 20}
Gaps == {0, 5}

InitCalc ==
  \E n \in 1..MaxKids, dir \in {"hstack", "vstack"}, g \in Gaps :
  \E w \in [1..n -> Widths], h \in [1..n -> Heights] :
    /\ kids = (Doc :> <<1>>) @@ (1 :> [i \in 1..n |-> i + 1])
              @@ [l \in 2..(n + 1) |-> <<>>]
    /\ rect = [l \in 2..(n + 1) |->
                 Bounds(5 * l, 3 * l, 5 * l + w[l - 1], 3 * l + h[l - 1])]
    /\ grouped = [l \in 1..(n + 1) |-> FALSE]
    /\ name = [l \in 1..(n + 1) |->
                 IF l = 1 THEN Name("", <<Cls(dir), ClsA("gap", <<Num(g)>>)>>)
                 ELSE Name("Item", <<>>)]
    /\ kind = [l \in 1..(n + 1) |-> IF l = 1 THEN "group" ELSE "normal"]
    /\ visible = [l \in 1..(n + 1) |-> TRUE]
    /\ rejects = {}
    /\ pc = "calculate"
    /\ layoutGroups = <<1>>
    /\ groupIdx = 1
    /\ clipped = <<>>
    /\ extracted = <<>>
    /\ log = <<>>
    /\ second = FALSE
    /\ start = [kids |-> kids, rect |-> rect]
    /\ result = Null

Calculate ==
  /\ pc = "calculate"
  /\ result' = calculateLayout(current, 1, parseLayoutName(name[1]))
  /\ pc' = "calculated"
  /\ UNCHANGED <<kids, rect, grouped, static, layoutGroups, groupIdx, clipped,
                 extracted, log, second, start>>

NextCalc == Calculate

SpecCalc == InitCalc /\ [][NextCalc]_vars

-----------------------------------------------------------------------------
(* One layout group on its own: layer 1 holds an optional content layer on  *)
(* top of up to MaxKids flow layers.  The group's name carries a direction  *)
(* (or none), a gap, a padding, an items-* and a justify-* class.  The      *)
(* calculator runs on the group (Calculate), then processLayoutGroup is     *)
(* applied to it (Apply).  Sizes, gaps and paddings are multiples of two    *)
(* where the code halves them, so that every quotient is a whole number.    *)

Directions == {"hstack", "vstack", "none"}
Sizes == {[w |-> 10, h |-> 10], [w |-> 20, h |-> 20], [w |-> 20, h |-> 10]}
EvenGaps == {0, 10}
Paddings == {<<Num(0)>>, <<Num(8), Num(16), Num(8), Num(16)>>}
Alignments == {"start", "center", "end"}
Justifications == {"start", "center", "end", "between"}

\* the content layer of the group: none, one that resizes, or one of 100 x 50
\* or 30 x 50 that does not
ContentLayers == {"none", "resize", "wide", "narrow"}

\* where the flow layers lie when the run starts
Placements == {"staggered", "piled"}

groupName(dir, g, pad, items, justify) ==
  Name("", (IF dir = "none" THEN <<>> ELSE <<Cls(dir)>>)
           \o <<ClsA("gap", <<Num(g)>>), ClsA("padding", pad),
                Cls(items), Cls(justify)>>)

InitBox ==
  \E n \in 1..MaxKids, dir \in Directions, g \in EvenGaps, pad \in Paddings,
     items \in Alignments, justify \in Justifications,
     content \in ContentLayers, placement \in Placements :
  \E size \in [2..(n + 1) -> Sizes] :
    LET flow == [i \in 1..n |-> i + 1]
        c == n + 2
        all == IF content = "none" THEN 1..(n + 1) ELSE 1..(n + 2)
        at(l) == IF placement = "piled" THEN [x |-> 20, y |-> 20]
                 ELSE [x |-> 5 * l, y |-> 3 * l]
        span == IF content = "narrow" THEN 30 ELSE 100
        inset == parsePadding(ClsA("padding", pad))
        room == IF dir = "hstack" THEN span - inset.left - inset.right
                ELSE 50 - inset.top - inset.bottom
        used == IF dir = "hstack"
                THEN SeqSum([i \in 1..n |-> size[i + 1].w], 1)
                ELSE SeqSum([i \in 1..n |-> size[i + 1].h], 1)
    IN /\ (placement = "piled" => n > 1)
       \* the space justify-between shares out is a whole number per gap
       /\ (n > 1 /\ content \in {"wide", "narrow"}) =>
            (room - used) % (n - 1) = 0
       /\ kids = [l \in {Doc} \cup all |->
                    CASE l = Doc -> <<1>>
                      [] l = 1 -> IF content = "none" THEN flow
                                  ELSE <<c>> \o flow
                      [] OTHER -> <<>>]
       /\ rect = [l \in all \ {1} |->
                    IF l = c
                    THEN Bounds(10, 10,
                                IF content = "narrow" THEN 40 ELSE 110, 60)
                    ELSE Bounds(at(l).x, at(l).y,
                                at(l).x + size[l].w, at(l).y + size[l].h)]
       /\ grouped = [l \in all |-> FALSE]
       /\ name = [l \in all |->
                    CASE l = 1 -> groupName(dir, g, pad, "items-" \o items,
                                            "justify-" \o justify)
                      [] l = c -> IF content = "resize"
                                  THEN Name("", <<Cls("content"), Cls("resize")>>)
                                  ELSE Name("", <<Cls("content")>>)
                      [] OTHER -> Name("Item", <<>>)]
       /\ kind = [l \in all |-> IF l = 1 THEN "group" ELSE "normal"]
       /\ visible = [l \in all |-> TRUE]
       /\ rejects = {}
       /\ pc = "calculate"
       /\ layoutGroups = <<1>>
       /\ groupIdx = 1
       /\ clipped = <<>>
       /\ extracted = <<>>
       /\ log = <<>>
       /\ second = FALSE
       /\ start = [kids |-> kids, rect |-> rect]
       /\ result = Null

\* processLayoutGroup on the group the calculator ran on
Apply ==
  /\ pc = "calculated"
  /\ commit(processLayoutGroup(current, 1), "applied")
  /\ UNCHANGED <<static, layoutGroups, groupIdx, clipped, extracted, second,
                 start, result>>

NextBox ==
  \/ Calculate
  \/ Apply

SpecBox == InitBox /\ [][NextBox]_vars

-----------------------------------------------------------------------------
(* The parser alone: parseLayoutName on one name of up to MaxClasses        *)
(* classes drawn from Tokens.                                               *)

MaxClasses == 3

Tokens ==
  {Cls("hstack"), Cls("vstack"), Cls("items-center"), Cls("items-end"),
   Cls("justify-end"), Cls("justify-between"), Cls("fixed"), Cls("card"),
   Cls("content"), Cls("content-box"),
   ClsA("gap", <<Num(5)>>),
   ClsA("gap", <<Arg(TRUE, TRUE, 5, "")>>),
   ClsA("gap", <<Arg(FALSE, TRUE, 5, "px")>>),
   ClsA("padding", <<Num(8), Num(16)>>),
   ClsA("padding", <<Arg(TRUE, TRUE, 8, "")>>),
   ClsA("padding", <<Num(8), Num(16), Num(8)>>),
   ClsA("padding", <<Arg(FALSE, FALSE, 0, "abc"), Num(4), Num(4), Num(4)>>)}

RECURSIVE SeqsUpTo(_, _)
SeqsUpTo(S, n) ==
  IF n = 0 THEN {<<>>}
  ELSE SeqsUpTo(S, n - 1)
       \cup {Append(s, x) : s \in {q \in SeqsUpTo(S, n - 1) : Len(q) = n - 1},
                             x \in S}

InitParse ==
  \E prefix \in {"", "Card"}, classes \in SeqsUpTo(Tokens, MaxClasses) :
    /\ prefix # "" => Len(classes) <= 1
    /\ kids = (Doc :> <<1>>) @@ (1 :> <<>>)
    /\ rect = (1 :> Bounds(0, 0, 10, 10))
    /\ grouped = (1 :> FALSE)
    /\ name = (1 :> Name(prefix, classes))
    /\ kind = (1 :> "normal")
    /\ visible = (1 :> TRUE)
    /\ rejects = {}
    /\ pc = "parse"
    /\ layoutGroups = <<>>
    /\ groupIdx = 1
    /\ clipped = <<>>
    /\ extracted = <<>>
    /\ log = <<>>
    /\ second = FALSE
    /\ start = [kids |-> kids, rect |-> rect]
    /\ result = Null

Parse ==
  /\ pc = "parse"
  /\ result' = parseLayoutName(name[1])
  /\ pc' = "parsed"
  /\ UNCHANGED <<kids, rect, grouped, static, layoutGroups, groupIdx, clipped,
                 extracted, log, second, start>>

NextParse == Parse

SpecParse == InitParse /\ [][NextParse]_vars

-----------------------------------------------------------------------------
(* Properties *)

\* the records of the layers the run treats as fixed
fixedRecords ==
  {n \in 1..Len(extracted) :
     ~extracted[n].isRelative /\ ~extracted[n].isBackdrop
     /\ ~extracted[n].isAdjustment}

\* the layers the run treats as relative
relativeLayers ==
  {extracted[n].layer : n \in {m \in 1..Len(extracted) : extracted[m].isRelative}}

\* the calculator's result for the group the phase 3 loop is at
layoutNow ==
  calculateLayout(current, layoutGroups[groupIdx],
                  parseLayoutName(name[layoutGroups[groupIdx]]))

\* C1 -- Idempotence: on a document on which the host refuses nothing, when
\* the second run of the pass has ended every layer has the rectangle the
\* first run left it with.
Idempotence ==
  (pc = "done" /\ second /\ rejects = {}) => rect = start.rect

\* C2 -- Fixed-layer canvas invariance: when the pass has ended, every layer
\* extracted as fixed has its top-left corner where extraction recorded it.
\* Stated for the documents in which the inner group keeps a flow layer (so
\* that no group is ever empty) and the host refuses nothing.
FixedCanvasInvariance ==
  (pc = "done" /\ rejects = {} /\ name[4] = Flow.name /\ visible[4]) =>
    \A n \in fixedRecords :
      /\ getLayerBounds(current, extracted[n].layer).left = extracted[n].absoluteX
      /\ getLayerBounds(current, extracted[n].layer).top = extracted[n].absoluteY

\* C3 -- Stacking preservation: when the pass has ended (the host refusing
\* nothing), every layout group holds its children in the order it held them
\* when the pass started.
StackingPreserved ==
  (pc = "done" /\ rejects = {}) =>
    \A i \in 1..Len(layoutGroups) :
      kids[layoutGroups[i]] = start.kids[layoutGroups[i]]

\* C4 -- A relative layer is no flow participant: whenever the calculator is
\* about to run on a group, its result holds no child flagged relative (such a
\* child is neither measured nor given a computed position).
RelativeNotInFlow ==
  (pc = "layout" /\ groupIdx <= Len(layoutGroups)) =>
    \A i \in 1..Len(layoutNow.children) :
      ~parseLayoutName(name[layoutNow.children[i].layer]).isRelative

\* C5 -- Non-flow exclusion: during Layout no layout group holds, as a direct
\* child, an adjustment layer or a visible layer flagged fixed or backdrop.
NonFlowAbsent ==
  pc = "layout" =>
    \A i \in 1..Len(layoutGroups) :
      \A c \in Range(kids[layoutGroups[i]]) :
        ~(\/ isAdjustmentLayer(c)
          \/ /\ isLayerVisible(c)
             /\ (parseLayoutName(name[c]).isFixed
                 \/ parseLayoutName(name[c]).isBackdrop))

\* C6 -- Best-effort totality: a host call that fails never ends the pass;
\* the run never leaves processDocument through an exception.
BestEffortTotality == pc # "aborted"

\* C7 -- Every extracted layer is back: when the pass has ended, in whatever
\* way, every layer with an extraction record is a direct child of the group
\* recorded as its original parent.
ExtractedAllReturned ==
  pc \in {"done", "aborted"} =>
    \A n \in 1..Len(extracted) :
      extracted[n].layer \in Range(kids[extracted[n].originalParent])

\* the host calls of the log by the phase that issues them
isExtraction(e) ==
  e.op = "move"
  /\ e.site \in {"extractSpecialLayers", "extractAdjustmentLayersFromGroup"}

isLayoutMutation(e) ==
  e.site \in {"applyPositions", "applyContentSizes", "applyRoundness"}

isReinsertion(e) == e.op = "move" /\ e.site = "restoreLayersToGroup"

isRestoreCall(e) ==
  e.site \in {"restoreLayersToGroup", "restoreLayersToGroup.lastChild"}

isClip(e) == e.op = "clip"

isBackdropResize(e) == e.site = "resizeBackdropToSize"

isMerge(e) == e.op = "merge"

RECURSIVE isBelow(_, _)
isBelow(d, a) ==
  LET p == parentOf(start, d) IN
  p # Doc /\ (p = a \/ isBelow(p, a))

\* C9 -- Deepest-first: the calculator never runs on a group after it has run
\* on a group above it, and every layout mutation of a child of a group
\* precedes every calculator run on a group above that group.
DeepestFirst ==
  \A i \in 1..Len(log), j \in 1..Len(log) :
    /\ (i < j /\ log[i].op = "calc" /\ log[j].op = "calc")
         => ~isBelow(log[j].layer, log[i].layer)
    /\ (isLayoutMutation(log[i]) /\ log[j].op = "calc"
        /\ isBelow(parentOf(start, log[i].layer), log[j].layer))
         => i < j

\* a pass that has ended after the calculator ran on the inner group, a child
\* of the inner group was moved or resized, and the calculator ran on the
\* outer group
DeepestFirstSeen ==
  /\ pc = "done"
  /\ \E i \in 1..Len(log), k \in 1..Len(log), j \in 1..Len(log) :
       /\ i < k /\ k < j
       /\ log[i].op = "calc" /\ log[i].layer = 2
       /\ isLayoutMutation(log[k]) /\ parentOf(start, log[k].layer) = 2
       /\ log[j].op = "calc" /\ log[j].layer = 1

\* the sum of the first k entries of s
RECURSIVE sumTo(_, _)
sumTo(s, k) == IF k = 0 THEN 0 ELSE s[k] + sumTo(s, k - 1)

\* the sizes of the flow children of group 1 and the anchor of its layout
childWidths == [i \in 1..Len(kids[1]) |-> getBoundsWidth(rect[kids[1][i]])]
childHeights == [i \in 1..Len(kids[1]) |-> getBoundsHeight(rect[kids[1][i]])]
anchorX == CHOOSE x \in {rect[l].left : l \in Range(kids[1])} :
             \A l \in Range(kids[1]) : x <= rect[l].left
anchorY == CHOOSE y \in {rect[l].top : l \in Range(kids[1])} :
             \A l \in Range(kids[1]) : y <= rect[l].top

\* the calculator's result for group 1, along its main and its cross axis
isRow == parseLayoutName(name[1]).direction = "horizontal"
mainSizes == IF isRow THEN childWidths ELSE childHeights
crossSizes == IF isRow THEN childHeights ELSE childWidths
mainExtent == IF isRow THEN result.contentSize.width
              ELSE result.contentSize.height
crossExtent == IF isRow THEN result.contentSize.height
               ELSE result.contentSize.width
offsetOf(i) == IF isRow THEN result.children[i].computedPosition.x - anchorX
               ELSE result.children[i].computedPosition.y - anchorY

\* the general rule: main extent = sum of the main sizes + gap x (n - 1),
\* cross extent = the largest cross size, child i at the anchor plus the main
\* sizes of the children before it plus gap x (i - 1)
gapRule ==
  LET n == Len(kids[1])
      gap == parseLayoutName(name[1]).gap
  IN /\ Len(result.children) = n
     /\ mainExtent = sumTo(mainSizes, n) + gap * (n - 1)
     /\ crossExtent \in Range(crossSizes)
     /\ \A i \in 1..n : crossSizes[i] <= crossExtent
     /\ \A i \in 1..n : offsetOf(i) = sumTo(mainSizes, i - 1) + gap * (i - 1)

\* the row of three children of widths 10, 20, 30 with gap 5: width 70 and
\* offsets 0, 15 and third
gapExample(third) ==
  (isRow /\ childWidths = <<10, 20, 30>> /\ parseLayoutName(name[1]).gap = 5) =>
    /\ result.contentSize.width = 70
    /\ <<offsetOf(1), offsetOf(2), offsetOf(3)>> = <<0, 15, third>>

\* C10 as stated -- Gap correctness with the offsets 0, 15, 45 for the row of
\* widths 10, 20, 30 and gap 5.
GapCorrectnessAsStated ==
  pc = "calculated" => (gapRule /\ gapExample(45))

\* C10 -- Gap correctness: for a row (column) of flow children in an
\* auto-sized, start-justified group, the measured main extent is the sum of
\* the children's widths (heights) plus gap x (n - 1), the cross extent is the
\* largest height (width), and child i is placed at the anchor plus the sizes
\* of the children before it plus gap x (i - 1); widths 10, 20, 30 with gap 5
\* in a row give offsets 0, 15, 40 and width 70.
GapCorrectness ==
  pc = "calculated" => (gapRule /\ gapExample(40))

\* the calculator has run on a row of three children of widths 10, 20, 30
\* with gap 5
GapCorrectnessSeen ==
  /\ pc = "calculated"
  /\ parseLayoutName(name[1]).direction = "horizontal"
  /\ parseLayoutName(name[1]).gap = 5
  /\ childWidths = <<10, 20, 30>>
  /\ result.contentSize.width = 70

\* the single group: its configuration, its content layer (the first child,
\* when the group has one) and the flow children of the calculator's result
boxConfig == parseLayoutName(name[1])
boxHasContent == isContentLayer(name[kids[1][1]])
boxContent == kids[1][1]
boxFixedSize ==
  boxHasContent /\ ~parseLayoutName(name[boxContent]).resizeContent
boxFlow == SelectSeq(result.children, LAMBDA ch : ch.computedSize = Null)

\* the case of the example: a content rectangle of 100 x 50 that does not
\* resize, padding (8, 16, 8, 16), one flow child of 20 x 20, items-center and
\* justify-center
paddingCase ==
  /\ boxFixedSize
  /\ getBoundsWidth(start.rect[boxContent]) = 100
  /\ getBoundsHeight(start.rect[boxContent]) = 50
  /\ boxConfig.padding = Spacing(8, 16, 8, 16)
  /\ boxConfig.items = "center" /\ boxConfig.justify = "center"
  /\ Len(boxFlow) = 1
  /\ getBoundsWidth(boxFlow[1].bounds) = 20
  /\ getBoundsHeight(boxFlow[1].bounds) = 20

\* the child of the example is computed, and after Apply lies, at (dx, dy)
\* from the top-left corner of the content rectangle
paddingExample(dx, dy) ==
  /\ (pc = "calculated" /\ paddingCase) =>
       /\ boxFlow[1].computedPosition.x = start.rect[boxContent].left + dx
       /\ boxFlow[1].computedPosition.y = start.rect[boxContent].top + dy
  /\ (pc = "applied" /\ paddingCase) =>
       /\ rect[boxFlow[1].layer].left = rect[boxContent].left + dx
       /\ rect[boxFlow[1].layer].top = rect[boxContent].top + dy

\* C11 as stated -- Padding containment with the offset (48, 15).
PaddingContainmentAsStated == paddingExample(48, 15)

\* C11 -- Padding containment: in a fixed-size group (content rectangle
\* 100 x 50, not resizing) with padding top 8, right 16, bottom 8, left 16,
\* items-center and justify-center, the one flow child of 20 x 20 is computed
\* at, and moved to, offset (40, 15) from the content rectangle's top-left
\* corner, whatever the direction of the group.
PaddingContainment == paddingExample(40, 15)

\* the example has been calculated and applied in a row
PaddingContainmentSeen ==
  /\ pc = "applied"
  /\ paddingCase
  /\ boxConfig.direction = "horizontal"
  /\ rect[boxFlow[1].layer] = Bounds(50, 25, 70, 45)

\* the single group as a row or a column: the main sizes of the flow
\* children of the result, and where child i is computed along the main axis
boxIsRow == boxConfig.direction = "horizontal"
boxMainSize(i) == IF boxIsRow THEN getBoundsWidth(boxFlow[i].bounds)
                  ELSE getBoundsHeight(boxFlow[i].bounds)
boxMainAt(i) == IF boxIsRow THEN boxFlow[i].computedPosition.x
                ELSE boxFlow[i].computedPosition.y
boxMainTotal == sumTo([i \in 1..Len(boxFlow) |-> boxMainSize(i)], Len(boxFlow))

\* fixed-size mode: the anchor and the available span along the main axis
fixedAnchor ==
  IF boxIsRow THEN start.rect[boxContent].left + boxConfig.padding.left
  ELSE start.rect[boxContent].top + boxConfig.padding.top
fixedAvailable ==
  IF boxIsRow
  THEN getBoundsWidth(start.rect[boxContent])
       - boxConfig.padding.left - boxConfig.padding.right
  ELSE getBoundsHeight(start.rect[boxContent])
       - boxConfig.padding.top - boxConfig.padding.bottom

\* a row or column in fixed-size mode with justify-between and n > 1
betweenCase ==
  /\ pc = "calculated"
  /\ boxFixedSize
  /\ boxConfig.direction # "none"
  /\ boxConfig.justify = "between"
  /\ Len(boxFlow) > 1

\* C12 -- Between distribution: in a fixed-size row or column with
\* justify-between and n > 1 flow children, the first child is computed at
\* the anchor; when the children's main sizes sum to less than the available
\* span, each child starts (available - sum) / (n - 1) after the end of the
\* one before it, whatever the gap, and the last child ends at anchor +
\* available; otherwise each child starts the configured gap after the end
\* of the one before it.  Available 100 with widths 10, 10, 10 gives the
\* offsets 0, 45, 90.
BetweenDistribution ==
  betweenCase =>
    LET n == Len(boxFlow)
        remaining == fixedAvailable - boxMainTotal
    IN /\ boxMainAt(1) = fixedAnchor
       /\ remaining > 0 =>
            /\ \A i \in 1..(n - 1) :
                 (n - 1) * (boxMainAt(i + 1) - boxMainAt(i) - boxMainSize(i))
                   = remaining
            /\ boxMainAt(n) + boxMainSize(n) = fixedAnchor + fixedAvailable
       /\ remaining <= 0 =>
            \A i \in 1..(n - 1) :
              boxMainAt(i + 1) - boxMainAt(i) - boxMainSize(i) = boxConfig.gap
       /\ (boxIsRow /\ fixedAvailable = 100 /\ n = 3
           /\ \A i \in 1..3 : boxMainSize(i) = 10) =>
            <<boxMainAt(1) - fixedAnchor, boxMainAt(2) - fixedAnchor,
              boxMainAt(3) - fixedAnchor>> = <<0, 45, 90>>

\* the row of the example has been calculated with a gap that is not zero:
\* available 100, widths 10, 10, 10, offsets 0, 45, 90
BetweenDistributionSeen ==
  /\ betweenCase
  /\ boxIsRow /\ fixedAvailable = 100 /\ boxConfig.gap = 10
  /\ Len(boxFlow) = 3
  /\ \A i \in 1..3 : boxMainSize(i) = 10
  /\ boxMainAt(3) - fixedAnchor = 90

\* the bounding union of the rectangles of the flow children of the result
flowUnion ==
  LET b == [i \in 1..Len(boxFlow) |-> boxFlow[i].bounds]
      n == Len(b)
  IN Bounds(SeqMin([i \in 1..n |-> b[i].left], 1),
            SeqMin([i \in 1..n |-> b[i].top], 1),
            SeqMax([i \in 1..n |-> b[i].right], 1),
            SeqMax([i \in 1..n |-> b[i].bottom], 1))

\* C13 -- No direction, auto-size: the measured content extent is the width
\* and the height of the bounding union of the flow children's rectangles
\* (max right - min left, max bottom - min top).
UnionExtent ==
  (pc = "calculated" /\ boxConfig.direction = "none" /\ ~boxFixedSize) =>
    /\ result.contentSize.width = getBoundsWidth(flowUnion)
    /\ result.contentSize.height = getBoundsHeight(flowUnion)

\* the positions the calculator computes for the flow children of the single
\* group when its configuration is config
positionsWith(config) ==
  LET children == calculateLayout(start, 1, config).children
  IN [i \in 1..Len(boxFlow) |-> children[i].computedPosition]

\* C14 -- Justify in auto-size mode: for a row or column with no content
\* child, or with a first content child that resizes, the positions computed
\* with justify-center or justify-end are those computed with justify-start.
JustifyNoOpAutoSize ==
  (/\ pc = "calculated"
   /\ ~boxFixedSize
   /\ boxConfig.direction # "none"
   /\ boxConfig.justify \in {"center", "end"}) =>
    [i \in 1..Len(boxFlow) |-> boxFlow[i].computedPosition]
      = positionsWith([boxConfig EXCEPT !.justify = "start"])

\* an auto-sized row of three children with a gap has been calculated with
\* justify-end, and the first child is computed at the left-most child's left
JustifyNoOpAutoSizeSeen ==
  /\ pc = "calculated"
  /\ ~boxFixedSize /\ boxHasContent
  /\ boxIsRow /\ boxConfig.justify = "end" /\ boxConfig.gap = 10
  /\ Len(boxFlow) = 3
  /\ boxFlow[1].computedPosition.x = 10

\* the flow children of the single group are computed where they would be
\* computed if the group had no padding
flowIgnoresPadding ==
  pc = "calculated" =>
    [i \in 1..Len(boxFlow) |-> boxFlow[i].computedPosition]
      = positionsWith([boxConfig EXCEPT !.padding = Spacing(0, 0, 0, 0)])

\* in a group with padding and no direction the flow children lie, after
\* Apply, as they lay relative to one another before it
flowKeepsOffsets ==
  (/\ pc = "applied"
   /\ boxConfig.direction = "none"
   /\ boxConfig.padding # Spacing(0, 0, 0, 0)) =>
    \A i \in 1..Len(boxFlow), j \in 1..Len(boxFlow) :
      LET a == boxFlow[i].layer
          b == boxFlow[j].layer
      IN /\ rect[a].left - rect[b].left = start.rect[a].left - start.rect[b].left
         /\ rect[a].top - rect[b].top = start.rect[a].top - start.rect[b].top

\* C15 -- Padding affects only content-layer geometry: the positions given
\* to the flow children of a layout group do not depend on the group's
\* padding, and in a group with padding and no direction the flow children
\* keep their positions relative to one another.
PaddingOnlyContent == flowIgnoresPadding /\ flowKeepsOffsets

\* a visible direct child of a layout group whose name carries the class
\* fixed after a descriptive prefix, as in Watermark.fixed
prefixedFixed ==
  {l \in Layers :
     /\ name[l].prefix # "" /\ hasClass(name[l], "fixed")
     /\ isLayerVisible(l)
     /\ parentOf(start, l) # Doc
     /\ isLayoutGroup(name[parentOf(start, l)])}

\* C16 -- A class after a prefix counts: a visible direct child of a layout
\* group named like Watermark.fixed is out of its group while the groups are
\* laid out, no layout call moves it, and when the pass has ended (the host
\* refusing nothing) it has the rectangle it started with.
PrefixedFixedHonoured ==
  \A l \in prefixedFixed :
    /\ pc = "layout" => l \notin Range(kids[parentOf(start, l)])
    /\ \A i \in 1..Len(log) : ~(isLayoutMutation(log[i]) /\ log[i].layer = l)
    /\ (pc = "done" /\ rejects = {}) => rect[l] = start.rect[l]

\* the one category of a layer by the precedence adjustment > backdrop >
\* fixed > relative
categoryOf(l) ==
  LET cfg == parseLayoutName(name[l]) IN
  CASE isAdjustmentLayer(l) -> "adjustment"
    [] cfg.isBackdrop -> "backdrop"
    [] cfg.isFixed -> "fixed"
    [] cfg.isRelative -> "relative"
    [] OTHER -> "flow"

\* the reinsertion of layer l is the j-th call and a calculator run is the
\* i-th call of the pass
reinsertedAt(l, j) == isReinsertion(log[j]) /\ log[j].layer = l
calculatedAt(i) == log[i].op = "calc"

\* C17 -- Category precedence: when the pass has ended (the host refusing
\* nothing), every extracted layer has been handled as the one category the
\* precedence adjustment > backdrop > fixed > relative gives it: a relative
\* layer was reinserted before every calculator run, a layer of any other
\* category after every calculator run; a backdrop smart object was resized
\* to the document, and no layer of another category was resized as a
\* backdrop or merged into.
CategoryPrecedence ==
  (pc = "done" /\ rejects = {}) =>
    \A n \in 1..Len(extracted) :
      LET l == extracted[n].layer
          cat == categoryOf(l)
      IN /\ \A i \in 1..Len(log), j \in 1..Len(log) :
              (calculatedAt(i) /\ reinsertedAt(l, j)) =>
                IF cat = "relative" THEN j < i ELSE i < j
         /\ (cat = "backdrop" /\ kind[l] = "smart") =>
              \E i \in 1..Len(log) : isBackdropResize(log[i]) /\ log[i].layer = l
         /\ cat # "backdrop" =>
              \A i \in 1..Len(log) :
                (isBackdropResize(log[i]) \/ isMerge(log[i])) => log[i].layer # l

\* the last class of the parsed name with word k, or no class
lastClass(k) ==
  LET cs == name[1].classes
      at == {i \in 1..Len(cs) : cs[i].k = k}
  IN IF at = {} THEN Null ELSE cs[CHOOSE i \in at : \A j \in at : j <= i]

\* an argument that is not a plain non-negative decimal numeral
malformed(a) == ~a.digits \/ a.neg \/ a.rest # ""

\* the argument of padding(...) that a side is taken from: one value for
\* all sides, (vertical, horizontal), or (top, right, bottom, left)
sideArg(v, side) ==
  CASE Len(v) = 1 -> v[1]
    [] Len(v) = 2 -> IF side \in {"top", "bottom"} THEN v[1] ELSE v[2]
    [] OTHER -> v[CHOOSE i \in 1..4 :
                    <<"top", "right", "bottom", "left">>[i] = side]

\* C18 -- Parser value invariant: the parsed gap and the four parsed padding
\* values are never negative; a gap whose argument is malformed is zero, a
\* padding list whose length is not 1, 2 or 4 gives zero on every side, and
\* a side taken from a malformed argument (not a number, negative) is zero.
ParserValues ==
  pc = "parsed" =>
    LET g == lastClass("gap")
        pd == lastClass("padding")
        sides == {"top", "right", "bottom", "left"}
        value == [s \in sides |->
                    CASE s = "top" -> result.padding.top
                      [] s = "right" -> result.padding.right
                      [] s = "bottom" -> result.padding.bottom
                      [] OTHER -> result.padding.left]
    IN /\ result.gap >= 0
       /\ \A s \in sides : value[s] >= 0
       /\ (g # Null /\ (Len(g.args) # 1 \/ malformed(g.args[1]))) =>
            result.gap = 0
       /\ (pd # Null /\ Len(pd.args) \notin {1, 2, 4}) =>
            \A s \in sides : value[s] = 0
       /\ (pd # Null /\ Len(pd.args) \in {1, 2, 4}) =>
            \A s \in sides : malformed(sideArg(pd.args, s)) => value[s] = 0

\* the kind of a class: the tokens of one kind write the same field
kindOf(cls) ==
  CASE cls.k \in {"hstack", "vstack"} -> "direction"
    [] cls.k \in {"items-start", "items-center", "items-end"} -> "items"
    [] cls.k \in {"justify-start", "justify-center", "justify-end",
                   "justify-between"} -> "justify"
    [] cls.k \in {"gap", "padding", "content", "resize", "rounded", "fixed",
                   "relative", "backdrop"} -> cls.k
    [] OTHER -> "unrecognized"

\* the last class of the parsed name of kind kd, or no class
lastOfKind(kd) ==
  LET cs == name[1].classes
      at == {i \in 1..Len(cs) : kindOf(cs[i]) = kd}
  IN IF at = {} THEN Null ELSE cs[CHOOSE i \in at : \A j \in at : j <= i]

\* the classes with those at i and i + 1 exchanged, and without the one at i
exchanged(cs, i) ==
  [j \in 1..Len(cs) |-> IF j = i THEN cs[i + 1] ELSE IF j = i + 1 THEN cs[i]
                         ELSE cs[j]]
dropped(cs, i) == SubSeq(cs, 1, i - 1) \o SubSeq(cs, i + 1, Len(cs))

\* C19 -- Parser later-wins: for a name that starts with the marker, the
\* parsed direction, items and justify are those of the last token of their
\* kind (the default when there is none); exchanging two neighbouring tokens
\* of different kinds does not change the parsed configuration, and neither
\* does removing an unrecognized segment.
LaterWins ==
  (pc = "parsed" /\ name[1].prefix = "") =>
    LET cs == name[1].classes
        d == lastOfKind("direction")
        it == lastOfKind("items")
        ju == lastOfKind("justify")
    IN /\ result.direction = (CASE d = Null -> "none"
                                [] d # Null /\ d.k = "hstack" -> "horizontal"
                                [] OTHER -> "vertical")
       /\ "items-" \o result.items = (IF it = Null THEN "items-start" ELSE it.k)
       /\ "justify-" \o result.justify
            = (IF ju = Null THEN "justify-start" ELSE ju.k)
       /\ \A i \in 1..(Len(cs) - 1) :
            kindOf(cs[i]) # kindOf(cs[i + 1]) =>
              parseLayoutName(Name("", exchanged(cs, i))) = result
       /\ \A i \in 1..Len(cs) :
            kindOf(cs[i]) = "unrecognized" =>
              parseLayoutName(Name("", dropped(cs, i))) = result

\* a name with two direction tokens, a token of another kind between them
\* and vstack last has been parsed as a column
LaterWinsSeen ==
  /\ pc = "parsed"
  /\ name[1] = Name("", <<Cls("hstack"), Cls("items-end"), Cls("vstack")>>)
  /\ result.direction = "vertical"
  /\ result.items = "end"

\* l is g or lies below g in the document as it is now
RECURSIVE isUnder(_, _)
isUnder(l, g) ==
  l = g \/ (parentOf(current, l) # Doc /\ isUnder(parentOf(current, l), g))

\* a comes before b in full document order (top to bottom, depth-first): a
\* contains b, or some container holds, in this order, a child that is or
\* contains a and a child that is or contains b
comesBefore(a, b) ==
  /\ a # b
  /\ \/ isUnder(b, a)
     \/ \E c \in DOMAIN kids : \E i \in 1..Len(kids[c]), j \in 1..Len(kids[c]) :
          i < j /\ isUnder(a, kids[c][i]) /\ isUnder(b, kids[c][j])

\* the layers the merges of this pass have stamped
stampedInPass ==
  {log[i].layer : i \in {j \in 1..Len(log) : log[j].op = "stamp"}}

\* the layers eligible for the merge into backdrop b: those the document held
\* when the merge began
eligibleBelow(b) ==
  {l \in inDocument(current) \ stampedInPass :
     comesBefore(b, l) /\ isLayerVisible(l)
     /\ ~parseLayoutName(name[l]).isBackdrop}

\* the visible backdrops that are direct children of a layout group
backdropsOfGroups ==
  {b \in Layers :
     /\ parseLayoutName(name[b]).isBackdrop /\ isLayerVisible(b)
     /\ parentOf(current, b) \in Range(layoutGroups)}

MergeSelfCleaning ==
  (pc = "done" /\ \E i \in 1..Len(log) : isMerge(log[i])) =>
    inDocument(current) \cap stampedInPass = {}

\* the smart object could not be opened: the stamp was removed again
MergeSelfCleaningSeen ==
  /\ pc = "done"
  /\ throws("edit", 3)
  /\ \E i \in 1..Len(log) : log[i].op = "remove"
  /\ inDocument(current) \cap Stamps = {}

\* the bounding union of the flow children of the group as they lie now
flowUnionNow == unionOfChildren(current, [i \in 1..Len(boxFlow) |-> boxFlow[i].layer], 1)

\* b widened by the padding p on its four sides
expanded(b, p) ==
  Bounds(b.left - p.left, b.top - p.top, b.right + p.right, b.bottom + p.bottom)

\* the group has a content child that resizes, so its size is taken from its
\* flow children
coverCase == boxHasContent /\ ~boxFixedSize /\ Len(boxFlow) > 0

\* C22 -- Content cover in auto-size mode: after the layout of a group with a
\* resizing content child and at least one visible flow child, the content
\* child's rectangle is the bounding union of the flow children widened by the
\* padding on all four sides; its top-left corner is the anchor (the top-left
\* corner of the flow children before the layout) less the left and top
\* padding.
ContentCover ==
  (pc = "applied" /\ coverCase) =>
    /\ rect[boxContent] = expanded(flowUnionNow, boxConfig.padding)
    /\ rect[boxContent].left = flowUnion.left - boxConfig.padding.left
    /\ rect[boxContent].top = flowUnion.top - boxConfig.padding.top

\* C23 -- No transform on adjustment layers: in no phase of the pass (layout,
\* restoring the extracted layers, resizing the backdrops) is a translate or a
\* resize issued on an adjustment layer.
AdjustmentUntouched ==
  \A i \in 1..Len(log) :
    log[i].op \in {"translate", "resize"} => kind[log[i].layer] # "adjust"

\* a pass has ended in which an adjustment layer was taken out of its layout
\* group and put back, and a sibling of it was translated
AdjustmentUntouchedSeen ==
  /\ pc = "done"
  /\ kind[4] = "adjust"
  /\ \E i \in 1..Len(log) : isReinsertion(log[i]) /\ log[i].layer = 4
  /\ \E i \in 1..Len(log) : log[i].op = "translate" /\ log[i].layer = 3

\* the group the next Layout step works on
groupNow == layoutGroups[groupIdx]

\* the document without the invisible direct children of group g
withoutInvisible(g) ==
  [current EXCEPT !.kids[g] = SelectSeq(@, LAMBDA l : isLayerVisible(l))]

\* the calculator gives group g what it would give it with its invisible
\* children taken away
invisibleNotMeasured(g) ==
  calculateLayout(current, g, parseLayoutName(name[g]))
    = calculateLayout(withoutInvisible(g), g, parseLayoutName(name[g]))

\* no translate and no resize has been issued on an invisible layer
invisibleNotMoved ==
  \A i \in 1..Len(log) :
    log[i].op \in {"translate", "resize"} => isLayerVisible(log[i].layer)

\* no invisible layer has been extracted for being fixed, relative or backdrop
invisibleNotExtracted ==
  \A i \in 1..Len(extracted) :
    isLayerVisible(extracted[i].layer) \/ extracted[i].isAdjustment

\* C24 -- An invisible direct child of a layout group is excluded entirely: it
\* is not counted in the content extent and shifts no sibling (the calculator
\* gives the group the same sizes and the same position for every child as it
\* would without the invisible child), no translate or resize is issued on it
\* during the pass, and it is not extracted when it is fixed, relative or
\* backdrop.
InvisibleExcluded ==
  /\ (pc = "layout" /\ groupIdx <= Len(layoutGroups)) =>
       invisibleNotMeasured(groupNow)
  /\ invisibleNotMoved
  /\ invisibleNotExtracted

\* the records of the layers that are put back after the layout
nonRelativeRecords == allNonRelativeLayers(extracted)

\* C25 -- Extraction sequence numbers: the records of a pass carry pairwise
\* distinct numbers that grow by one in the order the records were collected
\* (the record at index k of the list, counted from 0, has number k), the
\* adjustment layers taken out of fixed and relative groups included, and the
\* fixed, backdrop and adjustment layers are put back in strictly ascending
\* number.
ExtractionNumbers ==
  /\ \A k \in 1..Len(extracted) : extracted[k].extractionOrder = k - 1
  /\ \A i \in 1..Len(log), j \in 1..Len(log) :
       (i < j /\ isReinsertion(log[i]) /\ isReinsertion(log[j])) =>
         \A m \in 1..Len(nonRelativeRecords), n \in 1..Len(nonRelativeRecords) :
           (nonRelativeRecords[m].layer = log[i].layer
            /\ nonRelativeRecords[n].layer = log[j].layer)
             => nonRelativeRecords[m].extractionOrder
                  < nonRelativeRecords[n].extractionOrder

\* a pass has ended in which an adjustment layer was taken out of a relative
\* group that is no layout group, before the group itself and a backdrop, and
\* the adjustment layer and the backdrop were put back in this order
ExtractionNumbersSeen ==
  /\ pc = "done"
  /\ Len(extracted) = 3
  /\ extracted[1].isAdjustment /\ extracted[1].originalParent = 2
  /\ 2 \notin Range(layoutGroups)
  /\ extracted[2].layer = 2 /\ extracted[2].isRelative
  /\ extracted[3].isBackdrop
  /\ \E i \in 1..Len(log), j \in 1..Len(log) :
       /\ i < j
       /\ reinsertedAt(extracted[1].layer, i)
       /\ reinsertedAt(extracted[3].layer, j)

\* the layers of s, last first
reversed(s) == [i \in 1..Len(s) |-> s[Len(s) - i + 1]]

\* the recorded layers of the groups from the n-th on, each group's last first
RECURSIVE clipOrder(_)
clipOrder(n) ==
  IF n > Len(clipped) THEN <<>>
  ELSE reversed(clipped[n].clippedLayers) \o clipOrder(n + 1)

\* the layers on which clipping has been set, in the order of the calls
clipCalls ==
  LET calls == SelectSeq(log, isClip)
  IN [i \in 1..Len(calls) |-> calls[i].layer]

translateSuppressed ==
  \A i \in 1..Len(log) : log[i].op = "translate" => log[i].arg # <<0, 0>>

\* no resize of a layer to the size it had has been issued; in the layout of
\* one group a layer is resized at most once, from the size it started with
resizeSuppressed ==
  \A i \in 1..Len(log) :
    log[i].op = "resize" =>
      log[i].arg # <<getBoundsWidth(start.rect[log[i].layer]),
                     getBoundsHeight(start.rect[log[i].layer])>>

\* C27 -- Epsilon suppression: in the layout of a group a translate is issued
\* on a child only when its target differs from its place (a move of (0, 0)
\* is not issued), and a resize only when the target size differs from the
\* size the child has.
EpsilonSuppression ==
  pc = "applied" => (translateSuppressed /\ resizeSuppressed)

\* the visible smart-object backdrops of non-zero size that were direct
\* children of a layout group when the pass began, and on which the host
\* refuses nothing
resizableBackdrops ==
  {l \in Layers :
     /\ parseLayoutName(name[l]).isBackdrop
     /\ isLayerVisible(l)
     /\ kind[l] = "smart"
     /\ \E g \in Range(layoutGroups) : l \in Range(start.kids[g])
     /\ getBoundsWidth(start.rect[l]) > 0 /\ getBoundsHeight(start.rect[l]) > 0
     /\ \A op \in {"move", "translate", "resize"} : ~throws(op, l)}

\* C28 -- Backdrop resize: after the backdrops have been resized, every
\* visible smart-object backdrop of non-zero size that was a direct child of a
\* layout group has the rectangle (0, 0, document width, document height),
\* whatever its size and place before the pass and wherever the layout moved
\* its group.
BackdropCoversDocument ==
  pc \in {"mergeBackdrops", "done"} =>
    \A l \in resizableBackdrops : rect[l] = Canvas

\* a pass has ended in which a backdrop that began smaller than the document,
\* in a group the layout moved, covers the document
BackdropCoversDocumentSeen ==
  /\ pc = "done"
  /\ 3 \in resizableBackdrops
  /\ start.rect[3] # Canvas
  /\ rect[3] = Canvas
  /\ \E i \in 1..Len(log) : log[i].op = "translate" /\ log[i].layer = 2

\* group g holds no visible flow child and no visible content child: each of
\* its children is invisible, or fixed, relative, backdrop or adjustment
noEligibleChildren(g) ==
  \A c \in Range(kids[g]) : ~isLayerVisible(c) \/ categoryOf(c) # "flow"

\* the step has issued no translate, resize or corner-radius call, and the
\* pass goes on with the next group or the next phase
skipped ==
  /\ \A i \in (Len(log) + 1)..Len(log') :
       log'[i].op \notin {"translate", "resize", "round"}
  /\ rect' = rect
  /\ pc' = IF groupIdx = Len(layoutGroups) THEN phaseAfter("layout")
           ELSE "layout"

\* C29 -- Empty group: the layout of a group that holds no visible flow child
\* and no visible content child issues no translate, resize or corner-radius
\* call on any layer, and the pass goes on with the next group.
EmptySkipped ==
  [][(pc = "layout" /\ groupIdx <= Len(layoutGroups)
      /\ noEligibleChildren(groupNow)) => skipped]_vars

\* the same for a group none of whose visible children is relative
EmptySkippedNoRelative ==
  [][(pc = "layout" /\ groupIdx <= Len(layoutGroups)
      /\ noEligibleChildren(groupNow)
      /\ \A c \in Range(kids[groupNow]) :
           isLayerVisible(c) => ~parseLayoutName(name[c]).isRelative)
     => skipped]_vars

\* C30 -- Content classification is the same in the calculator and the
\* applier: for every layer name, the calculator takes the child for a content
\* child (isContentLayer: left out of the measurement and given a computed
\* size) exactly when the parsed configuration of the name has isContent (the
\* test of applyContentSizes before it resizes).
ContentConsistent ==
  pc = "parsed" => (isContentLayer(name[1]) <=> result.isContent)

\* the two tests agree on the names that start with the marker and have no
\* class that only begins with `content`
ContentConsistentMarked ==
  (pc = "parsed" /\ name[1].prefix = ""
   /\ \A i \in 1..Len(name[1].classes) : name[1].classes[i].k # "content-box")
    => (isContentLayer(name[1]) <=> result.isContent)

====
